---- MODULE Spec2Model ----
\* Model of photo_scoop: three scripts that lay the images of a folder out on
\* A4 PDF pages.
\*   images_to_pdf_v1.py  flow layout   (rows, several pages)
\*   images_to_pdf_v2.py  grid layout   (one page)
\*   images_to_pdf_v3.py  spiral layout (one page)
\*
\* Arithmetic.  The scripts compute sizes and positions with Python floats
\* (binary floating point, every operation rounded to nearest, ties to even).
\* The rounding decides discrete outcomes (the tests `width <= remaining_width`
\* and `row_height <= remaining_height` of the flow layout), so it is modelled:
\* a float is a pair <<m, e>> standing for m * 2^e, normalised to MantBits
\* significant bits, and every float operation rounds its exact result the way
\* IEEE-754 does.  MantBits is a bound of the model (Python has 53 bits).
EXTENDS Integers, Sequences, FiniteSets, TLC

\* ---------------------------------------------------------------- bounds
MantBits == 9

MaxFiles == 4

MaxCount == 12

MaxDim == 4

MaxGridN == 60

MaxSpiralN == 60

MaxDrawFails == 1

\* ------------------------------------------------------- program constants
MARGIN == 36

MIN_SPACE == 50

FLOW_GAP == 10

GRID_SPACING == 5

\* ------------------------------------------------------ float arithmetic
RECURSIVE Pow2(_)
Pow2(k) == IF k <= 0 THEN 1 ELSE 2 * Pow2(k - 1)

Pos(k) == IF k > 0 THEN k ELSE 0

Abs(i) == IF i < 0 THEN 0 - i ELSE i

Sign(i) == IF i < 0 THEN 0 - 1 ELSE IF i > 0 THEN 1 ELSE 0

\* n / d >= 2^k, for n >= 0, d > 0
GeqPow2(n, d, k) == n * Pow2(Pos(0 - k)) >= d * Pow2(Pos(k))

\* the exponent e with 2^(MantBits-1) <= (n/d) / 2^e < 2^MantBits, for n > 0
RECURSIVE FindExp(_, _, _)
FindExp(n, d, e) ==
    IF GeqPow2(n, d, e + MantBits) THEN FindExp(n, d, e + 1)
    ELSE IF ~GeqPow2(n, d, e + MantBits - 1) THEN FindExp(n, d, e - 1)
    ELSE e

\* round half to even: the quotient q of a division by den that left rem
HalfEven(q, rem, den) ==
    IF 2 * rem > den \/ (2 * rem = den /\ q % 2 = 1) THEN q + 1 ELSE q

\* a mantissa that rounding carried to 2^MantBits is renormalised
Pack(m, e) ==
    IF m = Pow2(MantBits) THEN <<Pow2(MantBits - 1), e + 1>> ELSE <<m, e>>

RoundDiv(num, den, e) == Pack(HalfEven(num \div den, num % den, den), e)

RoundAt(n, d, e) == RoundDiv(n * Pow2(Pos(0 - e)), d * Pow2(Pos(e)), e)

\* the float nearest to n / d (n >= 0, d > 0), ties to even
RoundRat(n, d) == IF n = 0 THEN <<0, 0>> ELSE RoundAt(n, d, FindExp(n, d, 0))

Signed(s, r, k) == <<s * r[1], r[2] + k>>

\* the float nearest to (n / d) * 2^k, n of either sign
RoundScaled(n, d, k) ==
    IF n = 0 THEN <<0, 0>> ELSE Signed(Sign(n), RoundRat(Abs(n), d), k)

\* Python int -> float
FromInt(i) == RoundScaled(i, 1, 0)

FNeg(a) == <<0 - a[1], a[2]>>

FMul(a, b) == RoundScaled(a[1] * b[1], 1, a[2] + b[2])

FDiv(a, b) == RoundScaled(a[1] * Sign(b[1]), Abs(b[1]), a[2] - b[2])

FAdd(a, b) ==
    IF a[1] = 0 THEN b
    ELSE IF b[1] = 0 THEN a
    ELSE IF a[2] - b[2] > MantBits + 2 THEN a
    ELSE IF b[2] - a[2] > MantBits + 2 THEN b
    ELSE IF a[2] >= b[2]
         THEN RoundScaled(a[1] * Pow2(a[2] - b[2]) + b[1], 1, b[2])
         ELSE RoundScaled(a[1] + b[1] * Pow2(b[2] - a[2]), 1, a[2])

FSub(a, b) == FAdd(a, FNeg(b))

\* exact comparison a < b of two floats
FLt(a, b) ==
    IF a[1] = 0 THEN b[1] > 0
    ELSE IF b[1] = 0 THEN a[1] < 0
    ELSE IF a[2] - b[2] > MantBits + 2 THEN a[1] < 0
    ELSE IF b[2] - a[2] > MantBits + 2 THEN b[1] > 0
    ELSE IF a[2] >= b[2] THEN a[1] * Pow2(a[2] - b[2]) < b[1]
    ELSE a[1] < b[1] * Pow2(b[2] - a[2])

FLe(a, b) == ~FLt(b, a)

\* Python min(a, b) and max(a, b): the first argument wins a tie
FMin(a, b) == IF FLt(b, a) THEN b ELSE a

FMax(a, b) == IF FLt(a, b) THEN b ELSE a

F0 == <<0, 0>>

F2 == FromInt(2)

\* ------------------------------------------------------------- the inputs
\* An image file is the size Image.open reports for it; a file that cannot be
\* opened (corrupt, unsupported) is BadImage.
BadImage == [ow |-> 0, oh |-> 0]

\* the sizes of the readable files of the lists tried in full
Kinds == {[ow |-> 4, oh |-> 3], [ow |-> 1, oh |-> 3]}

\* the sizes of the files of the lists of one kind
MoreKinds == Kinds \cup {[ow |-> 1, oh |-> 1], [ow |-> 3, oh |-> 1],
                         [ow |-> 3, oh |-> 2]}

Probeable(img) == img.ow > 0 /\ img.oh > 0

\* A4 of reportlab.lib.pagesizes: 210 mm x 297 mm in points of 1/72 inch
A4_WIDTH == RoundRat(75600, 127)

A4_HEIGHT == RoundRat(106920, 127)

\* available_width = A4_WIDTH - 2 * MARGIN
AvailableWidth == FSub(A4_WIDTH, FromInt(2 * MARGIN))

AvailableHeight == FSub(A4_HEIGHT, FromInt(2 * MARGIN))

\* ------------------------------------------- calculate_image_dimensions
NoDims == [ok |-> FALSE, width |-> F0, height |-> F0, scale |-> F0]

\* lines 59-62
ScaledBy(img, scale_factor) ==
    [ok     |-> TRUE,
     width  |-> FMul(FromInt(img.ow), scale_factor),
     height |-> FMul(FromInt(img.oh), scale_factor),
     scale  |-> scale_factor]

\* Image.open raises for a file it cannot read, and the except branch returns
\* None (lines 63-65)
calculate_image_dimensions(img, max_width, max_height) ==
    IF ~Probeable(img) THEN NoDims
    ELSE ScaledBy(img, FMin(FDiv(max_width, FromInt(img.ow)),
                            FDiv(max_height, FromInt(img.oh))))

\* ------------------------------------------------ v1: arrange_images_on_page
\* Indices are 0-based as in the code: image_files[i] is files[i + 1].
Ev(op, i) == <<op, i>>

RowState(row_images, row_height, remaining_width, current_idx, events) ==
    [row_images |-> row_images, row_height |-> row_height,
     remaining_width |-> remaining_width, current_idx |-> current_idx,
     events |-> events]

\* mutant: the gap after an image is not taken from the width left in the row
RowStep_nogap(st, d) ==
    IF ~d.ok
    THEN [stop |-> FALSE,
          next |-> RowState(st.row_images, st.row_height, st.remaining_width,
                            st.current_idx + 1,
                            Append(st.events, Ev("probe", st.current_idx)))]
    ELSE IF FLe(d.width, st.remaining_width)
    THEN [stop |-> FALSE,
          next |-> RowState(Append(st.row_images,
                                   [path |-> st.current_idx, width |-> d.width,
                                    height |-> d.height]),
                            FMax(st.row_height, d.height),
                            FSub(st.remaining_width, d.width),
                            st.current_idx + 1,
                            st.events \o <<Ev("probe", st.current_idx),
                                           Ev("place", st.current_idx)>>)]
    ELSE [stop |-> TRUE,
          next |-> RowState(st.row_images, st.row_height, st.remaining_width,
                            st.current_idx,
                            Append(st.events, Ev("probe", st.current_idx)))]

\* lines 91-107: what the loop body does with the probed dimensions d;
\* "next" is the state the loop goes on with, "stop" says that it breaks
RowStep(st, d) ==
    IF ~d.ok
    THEN [stop |-> FALSE,
          next |-> RowState(st.row_images, st.row_height, st.remaining_width,
                            st.current_idx + 1,
                            Append(st.events, Ev("probe", st.current_idx)))]
    ELSE IF FLe(d.width, st.remaining_width)
    THEN [stop |-> FALSE,
          next |-> RowState(Append(st.row_images,
                                   [path |-> st.current_idx, width |-> d.width,
                                    height |-> d.height]),
                            FMax(st.row_height, d.height),
                            FSub(st.remaining_width,
                                 FAdd(d.width, FromInt(FLOW_GAP))),
                            st.current_idx + 1,
                            st.events \o <<Ev("probe", st.current_idx),
                                           Ev("place", st.current_idx)>>)]
    ELSE [stop |-> TRUE,
          next |-> RowState(st.row_images, st.row_height, st.remaining_width,
                            st.current_idx,
                            Append(st.events, Ev("probe", st.current_idx)))]

\* lines 86-89
ProbeForRow(files, st, remaining_height, available_width, available_height) ==
    calculate_image_dimensions(
        files[st.current_idx + 1],
        FMin(st.remaining_width, FMul(available_width, RoundRat(8, 10))),
        FMin(remaining_height, FMul(available_height, RoundRat(6, 10))))

\* the inner while loop (lines 82-107); st is the loop's state
RECURSIVE FillRow(_, _, _, _, _)
RowAfter(files, step, remaining_height, available_width, available_height) ==
    IF step.stop THEN step.next
    ELSE FillRow(files, step.next, remaining_height,
                 available_width, available_height)

FillRow(files, st, remaining_height, available_width, available_height) ==
    IF st.current_idx < Len(files) /\ FLt(FromInt(MIN_SPACE), st.remaining_width)
    THEN RowAfter(files,
                  RowStep(st, ProbeForRow(files, st, remaining_height,
                                          available_width, available_height)),
                  remaining_height, available_width, available_height)
    ELSE st

PageState(page_images, remaining_height, current_idx, events, row_closes) ==
    [page_images |-> page_images, remaining_height |-> remaining_height,
     current_idx |-> current_idx, events |-> events, row_closes |-> row_closes]

\* line 110: the row has images and is not higher than what is left
RowKept(st, row) ==
    row.row_images # <<>> /\ FLe(row.row_height, st.remaining_height)

RowClose(st, row) ==
    [remaining_width |-> row.remaining_width, current_idx |-> row.current_idx,
     remaining_height |-> st.remaining_height, kept |-> RowKept(st, row)]

\* lines 109-114: what the outer loop does with the row the inner loop filled
PageStep(st, row) ==
    IF RowKept(st, row)
    THEN [stop |-> FALSE,
          next |-> PageState(Append(st.page_images, row.row_images),
                             FSub(st.remaining_height,
                                  FAdd(row.row_height, FromInt(FLOW_GAP))),
                             row.current_idx, row.events,
                             Append(st.row_closes, RowClose(st, row)))]
    ELSE [stop |-> TRUE,
          next |-> PageState(st.page_images, st.remaining_height,
                             row.current_idx, row.events,
                             Append(st.row_closes, RowClose(st, row)))]

\* the outer while loop (lines 76-114)
RECURSIVE FillPage(_, _, _, _)
PageAfter(files, step, available_width, available_height) ==
    IF step.stop THEN step.next
    ELSE FillPage(files, step.next, available_width, available_height)

FillPage(files, st, available_width, available_height) ==
    IF st.current_idx < Len(files) /\ FLt(FromInt(MIN_SPACE), st.remaining_height)
    THEN PageAfter(files,
                   PageStep(st,
                            FillRow(files,
                                    RowState(<<>>, F0, available_width,
                                             st.current_idx, st.events),
                                    st.remaining_height,
                                    available_width, available_height)),
                   available_width, available_height)
    ELSE st

\* returns page_images, current_idx (and, for the properties: the probes and
\* placements made, in order; the height left on the page; and for every row
\* the inner loop ended, the width left in it, the index it stopped at, the
\* height that was left for it and whether the row was kept)
arrange_images_on_page(files, start_idx, available_width, available_height) ==
    FillPage(files, PageState(<<>>, available_height, start_idx, <<>>, <<>>),
             available_width, available_height)

\* ------------------------------------------------- v2: calculate_grid_layout
\* math.ceil(math.sqrt(n)): the least c with c * c >= n
RECURSIVE CeilSqrtFrom(_, _)
CeilSqrtFrom(n, c) == IF c * c >= n THEN c ELSE CeilSqrtFrom(n, c + 1)

CeilSqrt(n) == CeilSqrtFrom(n, 0)

\* math.ceil(n / c)
CeilDiv(n, c) == (n + c - 1) \div c

\* mutant: as many rows as columns
SquareGrid_square(num_images, cols) == <<cols, cols>>

\* lines 89-91: rows for the cols chosen
SquareGrid(num_images, cols) == <<CeilDiv(num_images, cols), cols>>

\* returns <<rows, cols>>
calculate_grid_layout(num_images) ==
    IF num_images = 1 THEN <<1, 1>>
    ELSE IF num_images = 2 THEN <<1, 2>>
    ELSE IF num_images <= 4 THEN <<2, 2>>
    ELSE IF num_images <= 6 THEN <<2, 3>>
    ELSE IF num_images <= 9 THEN <<3, 3>>
    ELSE IF num_images <= 12 THEN <<3, 4>>
    ELSE IF num_images <= 16 THEN <<4, 4>>
    ELSE IF num_images <= 20 THEN <<4, 5>>
    ELSE IF num_images <= 25 THEN <<5, 5>>
    ELSE SquareGrid(num_images, CeilSqrt(num_images))

\* ------------------------------- v2: arrange_all_images_on_single_page
\* lines 105-111: the grid (rows, cols) and the size of its cells
GridOf(rc, available_width, available_height) ==
    [rows |-> rc[1],
     cols |-> rc[2],
     cell_width  |-> FDiv(FSub(available_width,
                               FromInt((rc[2] - 1) * GRID_SPACING)),
                          FromInt(rc[2])),
     cell_height |-> FDiv(FSub(available_height,
                               FromInt((rc[1] - 1) * GRID_SPACING)),
                          FromInt(rc[1]))]

grid_layout(num_images, available_width, available_height) ==
    GridOf(calculate_grid_layout(num_images), available_width, available_height)

\* lines 116-121: the cell of index i, its lower left corner and its size
grid_cell(i, g, available_height) ==
    [x |-> FMul(FromInt(i % g.cols), FAdd(g.cell_width, FromInt(GRID_SPACING))),
     y |-> FSub(FSub(available_height,
                     FMul(FromInt((i \div g.cols) + 1), g.cell_height)),
                FromInt((i \div g.cols) * GRID_SPACING)),
     w |-> g.cell_width,
     h |-> g.cell_height]

\* v2 lines 126-141, v3 lines 173-189: the image centred in its cell, or
\* nothing when it could not be probed
Centred(i, cell, d) ==
    IF d.ok
    THEN <<[path |-> i,
            x |-> FSub(FAdd(cell.x, FDiv(cell.w, F2)), FDiv(d.width, F2)),
            y |-> FSub(FAdd(cell.y, FDiv(cell.h, F2)), FDiv(d.height, F2)),
            width |-> d.width, height |-> d.height, cell |-> cell]>>
    ELSE <<>>

place_in_cell(i, img, cell) ==
    Centred(i, cell, calculate_image_dimensions(img, cell.w, cell.h))

\* the for loop of lines 115-141
RECURSIVE GridLoop(_, _, _, _, _)
GridLoop(files, i, arranged_images, g, available_height) ==
    IF i >= Len(files) THEN arranged_images
    ELSE GridLoop(files, i + 1,
                  arranged_images \o
                  place_in_cell(i, files[i + 1], grid_cell(i, g, available_height)),
                  g, available_height)

arrange_all_images_on_single_page_v2(files, available_width, available_height) ==
    IF Len(files) = 0 THEN <<>>
    ELSE GridLoop(files, 0, <<>>,
                  grid_layout(Len(files), available_width, available_height),
                  available_height)

\* ---------------------------------------------- v3: generate_spiral_positions
SpiralState(positions, x, y, dx, dy, steps_in_direction, steps_taken, direction_changes) ==
    [positions |-> positions, x |-> x, y |-> y, dx |-> dx, dy |-> dy,
     steps_in_direction |-> steps_in_direction, steps_taken |-> steps_taken,
     direction_changes |-> direction_changes]

\* mutant: the number of steps in a direction never grows
SpiralStep_nogrow(st) ==
    IF st.steps_taken + 1 = st.steps_in_direction
    THEN SpiralState(Append(st.positions, <<st.x + st.dx, st.y + st.dy>>),
                     st.x + st.dx, st.y + st.dy, 0 - st.dy, st.dx,
                     st.steps_in_direction, 0, st.direction_changes + 1)
    ELSE SpiralState(Append(st.positions, <<st.x + st.dx, st.y + st.dy>>),
                     st.x + st.dx, st.y + st.dy, st.dx, st.dy,
                     st.steps_in_direction, st.steps_taken + 1,
                     st.direction_changes)

\* lines 88-103: one step of the walk
SpiralStep(st) ==
    IF st.steps_taken + 1 = st.steps_in_direction
    THEN SpiralState(Append(st.positions, <<st.x + st.dx, st.y + st.dy>>),
                     st.x + st.dx, st.y + st.dy, 0 - st.dy, st.dx,
                     IF (st.direction_changes + 1) % 2 = 0
                     THEN st.steps_in_direction + 1 ELSE st.steps_in_direction,
                     0, st.direction_changes + 1)
    ELSE SpiralState(Append(st.positions, <<st.x + st.dx, st.y + st.dy>>),
                     st.x + st.dx, st.y + st.dy, st.dx, st.dy,
                     st.steps_in_direction, st.steps_taken + 1,
                     st.direction_changes)

\* the for loop of line 87; its index i is the number of positions so far
RECURSIVE SpiralLoop(_, _)
SpiralLoop(num_images, st) ==
    IF Len(st.positions) >= num_images THEN st.positions
    ELSE SpiralLoop(num_images, SpiralStep(st))

generate_spiral_positions(num_images) ==
    IF num_images = 0 THEN <<>>
    ELSE IF num_images = 1 THEN <<<<0, 0>>>>
    ELSE SpiralLoop(num_images,
                    SpiralState(<<<<0, 0>>>>, 0, 0, 1, 0, 1, 0, 0))

\* min and max of one coordinate (c = 1: x, c = 2: y) of the positions
MinCoord(positions, c) ==
    CHOOSE v \in {positions[k][c] : k \in DOMAIN positions} :
        \A k \in DOMAIN positions : v <= positions[k][c]

MaxCoord(positions, c) ==
    CHOOSE v \in {positions[k][c] : k \in DOMAIN positions} :
        \A k \in DOMAIN positions : v >= positions[k][c]

Bounds(positions) ==
    [min_x |-> MinCoord(positions, 1), max_x |-> MaxCoord(positions, 1),
     min_y |-> MinCoord(positions, 2), max_y |-> MaxCoord(positions, 2)]

\* -------------------------------------------- v3: calculate_spiral_dimensions
\* lines 121-132
SpiralDims(positions, b, available_width, available_height) ==
    [cell_size |-> FMin(FDiv(available_width, FromInt(b.max_x - b.min_x + 1)),
                        FDiv(available_height, FromInt(b.max_y - b.min_y + 1))),
     positions |-> positions]

SpiralDimsOf(positions, available_width, available_height) ==
    SpiralDims(positions, Bounds(positions), available_width, available_height)

\* returns cell_size, positions
calculate_spiral_dimensions(num_images, available_width, available_height) ==
    IF num_images = 0 THEN [cell_size |-> F0, positions |-> <<>>]
    ELSE SpiralDimsOf(generate_spiral_positions(num_images),
                      available_width, available_height)

\* ------------------------------- v3: arrange_all_images_on_single_page
\* lines 152-156: offset_x, offset_y
SpiralOffset(b, cell_size, available_width, available_height) ==
    [x |-> FSub(FDiv(FSub(available_width,
                          FMul(FromInt(b.max_x - b.min_x + 1), cell_size)), F2),
                FMul(FromInt(b.min_x), cell_size)),
     y |-> FSub(FDiv(FSub(available_height,
                          FMul(FromInt(b.max_y - b.min_y + 1), cell_size)), F2),
                FMul(FromInt(b.min_y), cell_size))]

\* lines 143-156: cell size, positions and offset of the spiral
SpiralOf(sd, available_width, available_height) ==
    [cell_size |-> sd.cell_size,
     positions |-> sd.positions,
     offset |-> SpiralOffset(Bounds(sd.positions), sd.cell_size,
                             available_width, available_height)]

spiral_layout(num_images, available_width, available_height) ==
    SpiralOf(calculate_spiral_dimensions(num_images,
                                         available_width, available_height),
             available_width, available_height)

\* lines 164-168: the cell of index i, its lower left corner and its size
spiral_cell(i, sp) ==
    [x |-> FAdd(sp.offset.x, FMul(FromInt(sp.positions[i + 1][1]), sp.cell_size)),
     y |-> FAdd(sp.offset.y, FMul(FromInt(sp.positions[i + 1][2]), sp.cell_size)),
     w |-> sp.cell_size,
     h |-> sp.cell_size]

\* mutant: the images after one that could not be probed move up, the cell of
\* an image is that of the number of images placed before it
RECURSIVE SpiralArrangeLoop_compact(_, _, _, _)
SpiralArrangeLoop_compact(files, i, arranged_images, sp) ==
    IF i >= Len(files) \/ i >= Len(sp.positions) THEN arranged_images
    ELSE SpiralArrangeLoop_compact(files, i + 1,
                                   arranged_images \o
                                   place_in_cell(i, files[i + 1],
                                                 spiral_cell(Len(arranged_images), sp)),
                                   sp)

\* the for loop of lines 160-189
RECURSIVE SpiralArrangeLoop(_, _, _, _)
SpiralArrangeLoop(files, i, arranged_images, sp) ==
    IF i >= Len(files) \/ i >= Len(sp.positions) THEN arranged_images
    ELSE SpiralArrangeLoop(files, i + 1,
                           arranged_images \o
                           place_in_cell(i, files[i + 1], spiral_cell(i, sp)),
                           sp)

arrange_all_images_on_single_page_v3(files, available_width, available_height) ==
    IF Len(files) = 0 THEN <<>>
    ELSE SpiralArrangeLoop(files, 0, <<>>,
                           spiral_layout(Len(files),
                                         available_width, available_height))

\* ---------------------------------------------------------------- state
VARIABLES
    script,           \* which script runs: "v1" (flow), "v2" (grid), "v3" (spiral)
    image_files,      \* the sorted list get_image_files returned
    pc,               \* where create_pdf_from_images stands
    current_idx,      \* v1: index of the next image to lay out
    page_num,         \* v1: number of the page being filled
    page,             \* v1: what arrange_images_on_page last returned
    pages,            \* v1: page_images of every page finished so far
    arranged_images,  \* v2, v3: what arrange_all_images_on_single_page returned
    draw_fails,       \* number of draw calls that raised so far
    log,              \* calls made on the collaborators, in order
    fn_args,          \* arguments of the function under test (SpecFn)
    fn_ret            \* its result

vars == <<script, image_files, pc, current_idx, page_num, page, pages,
          arranged_images, draw_fails, log, fn_args, fn_ret>>

\* a call on a collaborator: probe (Image.open for the size), place (a
\* placement record appended), draw / drawfail (c.drawImage returned / raised),
\* canvas, showPage, save
Call(op, i, x, y, w, h) == [op |-> op, i |-> i, x |-> x, y |-> y, w |-> w, h |-> h]

Call0(op, i) == Call(op, i, F0, F0, F0, F0)

EventCalls(events) == [k \in DOMAIN events |-> Call0(events[k][1], events[k][2])]

NoPage == PageState(<<>>, F0, 0, <<>>, <<>>)

Symbols == Kinds \cup {BadImage}

\* every list of at most MaxFiles files, and the lists of up to MaxCount
\* files of one kind
InputLists ==
    UNION {[1..n -> Symbols] : n \in 0..MaxFiles}
    \cup {[k \in 1..n |-> s] : n \in 1..MaxCount, s \in MoreKinds \cup {BadImage}}

Init ==
    /\ script \in {"v1", "v2", "v3"}
    /\ image_files \in InputLists
    /\ pc = "start"
    /\ current_idx = 0
    /\ page_num = 1
    /\ page = NoPage
    /\ pages = <<>>
    /\ arranged_images = <<>>
    /\ draw_fails = 0
    /\ log = <<>>
    /\ fn_args = <<>>
    /\ fn_ret = <<>>

\* ----------------------------------------- create_pdf_from_images, all scripts
\* lines 120-134 of v1 (147-159 of v2, 195-207 of v3)
Start ==
    /\ pc = "start"
    /\ script \in {"v1", "v2", "v3"}
    /\ IF image_files = <<>>
       THEN pc' = "done" /\ log' = log
       ELSE pc' = "arrange" /\ log' = Append(log, Call0("canvas", 0 - 1))
    /\ UNCHANGED <<script, image_files, current_idx, page_num, page, pages,
                   arranged_images, draw_fails, fn_args, fn_ret>>

\* c.save()
Save ==
    /\ pc = "save"
    /\ pc' = "done"
    /\ log' = Append(log, Call0("save", 0 - 1))
    /\ UNCHANGED <<script, image_files, current_idx, page_num, page, pages,
                   arranged_images, draw_fails, fn_args, fn_ret>>

\* -------------------------------------------- v1: create_pdf_from_images
\* lines 137-143: the loop test held, arrange the current page
FlowArrange ==
    /\ script = "v1" /\ pc = "arrange"
    /\ page' = arrange_images_on_page(image_files, current_idx,
                                      AvailableWidth, AvailableHeight)
    /\ log' = log \o EventCalls(page'.events)
    /\ pc' = IF page'.page_images = <<>> THEN "single" ELSE "draw"
    /\ UNCHANGED <<script, image_files, current_idx, page_num, pages,
                   arranged_images, draw_fails, fn_args, fn_ret>>

\* lines 152-162: the single image centred on the page and drawn
SingleDraw(op, i, d) ==
    Call(op, i,
         FAdd(FromInt(MARGIN), FDiv(FSub(AvailableWidth, d.width), F2)),
         FAdd(FromInt(MARGIN), FDiv(FSub(AvailableHeight, d.height), F2)),
         d.width, d.height)

SinglePage(i, d) == <<<<[path |-> i, width |-> d.width, height |-> d.height]>>>>

\* mutant: the fallback does not move on to the next image
FlowSingleWith_stay(d) ==
    /\ IF d.ok
       THEN \E ok \in BOOLEAN :
               /\ ok \/ draw_fails < MaxDrawFails
               /\ draw_fails' = IF ok THEN draw_fails ELSE draw_fails + 1
               /\ log' = log \o <<Call0("probe", current_idx),
                                  SingleDraw(IF ok THEN "draw" ELSE "drawfail",
                                             current_idx, d)>>
               /\ pages' = Append(pages, SinglePage(current_idx, d))
       ELSE /\ draw_fails' = draw_fails
            /\ log' = Append(log, Call0("probe", current_idx))
            /\ pages' = Append(pages, <<>>)
    /\ current_idx' = current_idx
    /\ pc' = "advance"
    /\ UNCHANGED <<script, image_files, page_num, page, arranged_images,
                   fn_args, fn_ret>>

\* lines 145-164, with the dimensions d probed for image_files[current_idx]
FlowSingleWith(d) ==
    /\ IF d.ok
       THEN \E ok \in BOOLEAN :
               /\ ok \/ draw_fails < MaxDrawFails
               /\ draw_fails' = IF ok THEN draw_fails ELSE draw_fails + 1
               /\ log' = log \o <<Call0("probe", current_idx),
                                  SingleDraw(IF ok THEN "draw" ELSE "drawfail",
                                             current_idx, d)>>
               /\ pages' = Append(pages, SinglePage(current_idx, d))
       ELSE /\ draw_fails' = draw_fails
            /\ log' = Append(log, Call0("probe", current_idx))
            /\ pages' = Append(pages, <<>>)
    /\ current_idx' = current_idx + 1
    /\ pc' = "advance"
    /\ UNCHANGED <<script, image_files, page_num, page, arranged_images,
                   fn_args, fn_ret>>

\* lines 145-164: no image was arranged, try image_files[current_idx] alone
FlowSingle ==
    /\ script = "v1" /\ pc = "single"
    /\ FlowSingleWith(calculate_image_dimensions(image_files[current_idx + 1],
                                                 AvailableWidth, AvailableHeight))

\* sum(img['width'] for img in row): added left to right, starting from 0
RECURSIVE SumWidths(_, _)
SumWidths(row, k) ==
    IF k = 0 THEN F0 ELSE FAdd(SumWidths(row, k - 1), row[k].width)

\* max(img['height'] for img in row)
RECURSIVE MaxHeight(_, _)
MaxHeight(row, k) ==
    IF k = 1 THEN row[1].height ELSE FMax(MaxHeight(row, k - 1), row[k].height)

\* line 182: the image centred vertically in the row
ImgY(current_y, row_height, img_info) ==
    FAdd(current_y, FDiv(FSub(row_height, img_info.height), F2))

\* the loop over one row (lines 179-191); a draw that raises leaves current_x
RECURSIVE DrawRow(_, _, _, _, _, _, _)
DrawRow(row, k, current_x, current_y, row_height, failing, calls) ==
    IF k > Len(row) THEN calls
    ELSE IF row[k].path \in failing
    THEN DrawRow(row, k + 1, current_x, current_y, row_height, failing,
                 Append(calls, Call("drawfail", row[k].path, current_x,
                                    ImgY(current_y, row_height, row[k]),
                                    row[k].width, row[k].height)))
    ELSE DrawRow(row, k + 1,
                 FAdd(current_x, FAdd(row[k].width, FromInt(FLOW_GAP))),
                 current_y, row_height, failing,
                 Append(calls, Call("draw", row[k].path, current_x,
                                    ImgY(current_y, row_height, row[k]),
                                    row[k].width, row[k].height)))

\* lines 171-172: start_x of a row
StartX(row) ==
    FAdd(FromInt(MARGIN),
         FDiv(FSub(AvailableWidth,
                   FAdd(SumWidths(row, Len(row)),
                        FromInt((Len(row) - 1) * FLOW_GAP))),
              F2))

\* the loop over the rows of a page (lines 169-193); y is current_y after
\* line 176
RECURSIVE DrawRows(_, _, _, _, _)
DrawRowAt(page_images, r, y, row_height, failing, calls) ==
    DrawRows(page_images, r + 1, FSub(y, FromInt(FLOW_GAP)), failing,
             DrawRow(page_images[r], 1, StartX(page_images[r]), y, row_height,
                     failing, calls))

DrawRowOf(page_images, r, current_y, row_height, failing, calls) ==
    DrawRowAt(page_images, r, FSub(current_y, row_height), row_height,
              failing, calls)

DrawRows(page_images, r, current_y, failing, calls) ==
    IF r > Len(page_images) THEN calls
    ELSE DrawRowOf(page_images, r, current_y,
                   MaxHeight(page_images[r], Len(page_images[r])),
                   failing, calls)

Paths(page_images) ==
    UNION {{page_images[r][k].path : k \in DOMAIN page_images[r]}
           : r \in DOMAIN page_images}

\* lines 165-195: draw the rows of the page
FlowDraw ==
    /\ script = "v1" /\ pc = "draw"
    /\ \E failing \in SUBSET Paths(page.page_images) :
          /\ draw_fails + Cardinality(failing) <= MaxDrawFails
          /\ draw_fails' = draw_fails + Cardinality(failing)
          /\ log' = DrawRows(page.page_images, 1,
                             FSub(A4_HEIGHT, FromInt(MARGIN)), failing, log)
    /\ pages' = Append(pages, page.page_images)
    /\ current_idx' = page.current_idx
    /\ pc' = "advance"
    /\ UNCHANGED <<script, image_files, page_num, page, arranged_images,
                   fn_args, fn_ret>>

\* lines 197-200 and the loop test of line 137
FlowAdvance ==
    /\ script = "v1" /\ pc = "advance"
    /\ IF current_idx < Len(image_files)
       THEN /\ log' = Append(log, Call0("showPage", 0 - 1))
            /\ page_num' = page_num + 1
            /\ pc' = "arrange"
       ELSE /\ log' = log
            /\ page_num' = page_num
            /\ pc' = "save"
    /\ UNCHANGED <<script, image_files, current_idx, page, pages,
                   arranged_images, draw_fails, fn_args, fn_ret>>

\* The while loop of lines 137-200 as a function of the list: the page_images
\* of every page, in order (page_num ends as their number).  What is placed
\* does not depend on the draw calls.
RECURSIVE FlowRun(_, _, _)
FlowRunSingle(i, d) == IF d.ok THEN SinglePage(i, d) ELSE <<>>

FlowRunPage(files, idx, pg) ==
    IF pg.page_images = <<>>
    THEN FlowRun(files, idx + 1,
                 <<FlowRunSingle(idx, calculate_image_dimensions(
                                          files[idx + 1],
                                          AvailableWidth, AvailableHeight))>>)
    ELSE FlowRun(files, pg.current_idx, <<pg.page_images>>)

FlowRun(files, idx, first) ==
    first \o (IF idx >= Len(files) THEN <<>>
              ELSE FlowRunPage(files, idx,
                               arrange_images_on_page(files, idx, AvailableWidth,
                                                      AvailableHeight)))

flow_pages(files) == FlowRun(files, 0, <<>>)

\* ---------------------------------------- v2, v3: create_pdf_from_images
\* the probes and placements of the arranging loop, in order: every file is
\* probed, and placed when it is in the list returned
RECURSIVE PlaceCalls(_, _, _)
PlaceCalls(n, i, placed) ==
    IF i >= n THEN <<>>
    ELSE (IF i \in placed
          THEN <<Call0("probe", i), Call0("place", i)>>
          ELSE <<Call0("probe", i)>>) \o PlaceCalls(n, i + 1, placed)

ArrangedPaths(arranged) == {arranged[k].path : k \in DOMAIN arranged}

\* v2, lines 161-164
GridArrange ==
    /\ script = "v2" /\ pc = "arrange"
    /\ arranged_images' = arrange_all_images_on_single_page_v2(
                              image_files, AvailableWidth, AvailableHeight)
    /\ log' = log \o PlaceCalls(Len(image_files), 0, ArrangedPaths(arranged_images'))
    /\ pc' = "draw"
    /\ UNCHANGED <<script, image_files, current_idx, page_num, page, pages,
                   draw_fails, fn_args, fn_ret>>

\* v3, lines 209-212
SpiralArrange ==
    /\ script = "v3" /\ pc = "arrange"
    /\ arranged_images' = arrange_all_images_on_single_page_v3(
                              image_files, AvailableWidth, AvailableHeight)
    /\ log' = log \o PlaceCalls(Len(image_files), 0, ArrangedPaths(arranged_images'))
    /\ pc' = "draw"
    /\ UNCHANGED <<script, image_files, current_idx, page_num, page, pages,
                   draw_fails, fn_args, fn_ret>>

\* the draw loop (v2 lines 166-179, v3 lines 214-227)
RECURSIVE DrawArranged(_, _, _, _)
DrawArranged(arranged, k, failing, calls) ==
    IF k > Len(arranged) THEN calls
    ELSE DrawArranged(arranged, k + 1, failing,
             Append(calls,
                    Call(IF arranged[k].path \in failing THEN "drawfail" ELSE "draw",
                         arranged[k].path,
                         FAdd(FromInt(MARGIN), arranged[k].x),
                         FAdd(FromInt(MARGIN), arranged[k].y),
                         arranged[k].width, arranged[k].height)))

SinglePageDraw ==
    /\ script \in {"v2", "v3"} /\ pc = "draw"
    /\ \E failing \in SUBSET ArrangedPaths(arranged_images) :
          /\ draw_fails + Cardinality(failing) <= MaxDrawFails
          /\ draw_fails' = draw_fails + Cardinality(failing)
          /\ log' = DrawArranged(arranged_images, 1, failing, log)
    /\ pc' = "save"
    /\ UNCHANGED <<script, image_files, current_idx, page_num, page, pages,
                   arranged_images, fn_args, fn_ret>>

Next ==
    \/ Start
    \/ FlowArrange
    \/ FlowSingle
    \/ FlowDraw
    \/ FlowAdvance
    \/ GridArrange
    \/ SpiralArrange
    \/ SinglePageDraw
    \/ Save

Spec == Init /\ [][Next]_vars

\* The script is one sequential process that nothing stops: a step that can be
\* taken is taken.  Every action of Next moves pc, and one of them can be taken
\* wherever pc is not "done", so the fairness of Next is stated on pc.
PcValues == {"start", "arrange", "single", "draw", "advance", "save", "done"}

Proceed == pc # "done" /\ pc' \in PcValues \ {pc}

FairSpec == Spec /\ WF_pc(Proceed)

\* ------------------------------------------- the functions on their own
\* SpecFn calls one function with arguments drawn from bounded sets.
Boxes == {FromInt(1), FromInt(50), FromInt(100), AvailableWidth, AvailableHeight}

FnArgs(fn, img, max_width, max_height, n) ==
    [fn |-> fn, img |-> img, max_width |-> max_width,
     max_height |-> max_height, n |-> n]

FnInputs ==
    {FnArgs("calculate_image_dimensions", [ow |-> a, oh |-> b], mw, mh, 0) :
        a \in 1..MaxDim, b \in 1..MaxDim, mw \in Boxes, mh \in Boxes}
    \cup {FnArgs("calculate_grid_layout", BadImage, F0, F0, n) : n \in 1..MaxGridN}
    \cup {FnArgs("generate_spiral_positions", BadImage, F0, F0, n) :
             n \in 1..MaxSpiralN}

InitFn ==
    /\ script = "fn"
    /\ image_files = <<>>
    /\ pc = "call"
    /\ current_idx = 0
    /\ page_num = 1
    /\ page = NoPage
    /\ pages = <<>>
    /\ arranged_images = <<>>
    /\ draw_fails = 0
    /\ log = <<>>
    /\ fn_args \in FnInputs
    /\ fn_ret = <<>>

Returned(fn) == script = "fn" /\ pc = "ret" /\ fn_args.fn = fn

CallDims ==
    /\ script = "fn" /\ pc = "call"
    /\ fn_args.fn = "calculate_image_dimensions"
    /\ fn_ret' = calculate_image_dimensions(fn_args.img, fn_args.max_width,
                                            fn_args.max_height)
    /\ pc' = "ret"
    /\ UNCHANGED <<script, image_files, current_idx, page_num, page, pages,
                   arranged_images, draw_fails, log, fn_args>>

CallGrid ==
    /\ script = "fn" /\ pc = "call"
    /\ fn_args.fn = "calculate_grid_layout"
    /\ fn_ret' = calculate_grid_layout(fn_args.n)
    /\ pc' = "ret"
    /\ UNCHANGED <<script, image_files, current_idx, page_num, page, pages,
                   arranged_images, draw_fails, log, fn_args>>

CallSpiral ==
    /\ script = "fn" /\ pc = "call"
    /\ fn_args.fn = "generate_spiral_positions"
    /\ fn_ret' = generate_spiral_positions(fn_args.n)
    /\ pc' = "ret"
    /\ UNCHANGED <<script, image_files, current_idx, page_num, page, pages,
                   arranged_images, draw_fails, log, fn_args>>

NextFn ==
    \/ CallDims
    \/ CallGrid
    \/ CallSpiral

SpecFn == InitFn /\ [][NextFn]_vars

\* ------------------------------------------- exact arithmetic on floats
\* For the properties: a float <<m, e>> is the rational m * 2^e, and sums,
\* differences and products of floats are computed here without rounding.
MinOf(a, b) == IF a <= b THEN a ELSE b

MaxOf(a, b) == IF a >= b THEN a ELSE b

\* the integer a * 2^(-e), for a float a with exponent >= e (or a = 0)
At(a, e) == IF a[1] = 0 THEN 0 ELSE a[1] * Pow2(a[2] - e)

\* the exponent two floats are compared at
Common(a, b) ==
    IF a[1] = 0 THEN b[2] ELSE IF b[1] = 0 THEN a[2] ELSE MinOf(a[2], b[2])

XAdd(a, b) == <<At(a, Common(a, b)) + At(b, Common(a, b)), Common(a, b)>>

XSub(a, b) == <<At(a, Common(a, b)) - At(b, Common(a, b)), Common(a, b)>>

XMulInt(a, k) == <<a[1] * k, a[2]>>

XAbs(a) == <<Abs(a[1]), a[2]>>

XLe(a, b) == XSub(a, b)[1] <= 0

XLt(a, b) == XSub(a, b)[1] < 0

\* =================================================================== claims

\* ------------------------------------------------------------------- C1
\* C1: for a probe-able image and a positive box,
\* calculate_image_dimensions returns a size with width * oh = height * ow
\* exactly, width <= max_width, height <= max_height, and width = max_width
\* or height = max_height.
C1_LargestInBox ==
    Returned("calculate_image_dimensions") =>
        /\ fn_ret.ok
        /\ XSub(XMulInt(fn_ret.width, fn_args.img.oh),
                XMulInt(fn_ret.height, fn_args.img.ow))[1] = 0
        /\ XLe(fn_ret.width, fn_args.max_width)
        /\ XLe(fn_ret.height, fn_args.max_height)
        /\ \/ XSub(fn_ret.width, fn_args.max_width)[1] = 0
           \/ XSub(fn_ret.height, fn_args.max_height)[1] = 0

\* ------------------------------------------------------------------- C2
\* the paths of the placements of the rows of a page, and of the pages, in order
RECURSIVE RowsPaths(_, _)
RowsPaths(rows, r) ==
    IF r > Len(rows) THEN <<>>
    ELSE [k \in DOMAIN rows[r] |-> rows[r][k].path] \o RowsPaths(rows, r + 1)

RECURSIVE PagesPaths(_, _)
PagesPaths(ps, p) ==
    IF p > Len(ps) THEN <<>>
    ELSE RowsPaths(ps[p], 1) \o PagesPaths(ps, p + 1)

\* the placements the run emitted, by the index of their file, in order
Placed ==
    IF script = "v1" THEN PagesPaths(pages, 1)
    ELSE [k \in DOMAIN arranged_images |-> arranged_images[k].path]

\* the indices of the probe-able files, in input order
RECURSIVE ProbeableFrom(_, _)
ProbeableFrom(files, i) ==
    IF i >= Len(files) THEN <<>>
    ELSE (IF Probeable(files[i + 1]) THEN <<i>> ELSE <<>>)
         \o ProbeableFrom(files, i + 1)

\* C2: in each of the three layouts, when the run has ended the placements
\* emitted are exactly one for every probe-able file and none for a file that
\* fails probing, in input order: nothing is lost, duplicated or reordered.
C2_OnePlacementEach ==
    pc = "done" => Placed = ProbeableFrom(image_files, 0)

\* ------------------------------------------------------------------- C3
\* the list without the files that cannot be probed
Good(files) == SelectSeq(files, Probeable)

\* the index a file has in Good(files): the number of probe-able files before it
Rank(files, i) == Cardinality({k \in 1..i : Probeable(files[k])})

Renumbered(files, ps) ==
    [p \in DOMAIN ps |->
        [r \in DOMAIN ps[p] |->
            [k \in DOMAIN ps[p][r] |->
                [path   |-> Rank(files, ps[p][r][k].path),
                 width  |-> ps[p][r][k].width,
                 height |-> ps[p][r][k].height]]]]

\* C3: in flow layout the pages emitted for a list, their number and the
\* placements on each of them, are those emitted for the list without its
\* unprobe-able files: such a file never starts a page and is never counted.
C3_SameAsWithout ==
    (script = "v1" /\ pc = "done") =>
        Renumbered(image_files, pages) = flow_pages(Good(image_files))

\* ------------------------------------------------------------------- C4
\* C4: when no file of the folder is a valid image (there is no file, or
\* every file fails probing) the run ends without having done anything: no
\* canvas, no layout (so no probe), no page, no draw and no save.
C4_NoOp ==
    (\A k \in DOMAIN image_files : ~Probeable(image_files[k])) => log = <<>>

\* ------------------------------------------------------------------- C5
\* C5: for N >= 1, calculate_grid_layout(N) = (rows, cols) has
\* rows * cols >= N and rows * cols < N + max(rows, cols); for N > 25 cols is
\* ceil(sqrt(N)) and rows is ceil(N / cols); N = 30 gives 5 rows of 6.
C5_GridFits ==
    Returned("calculate_grid_layout") =>
        /\ fn_ret[1] * fn_ret[2] >= fn_args.n
        /\ fn_ret[1] * fn_ret[2] < fn_args.n + MaxOf(fn_ret[1], fn_ret[2])
        /\ fn_args.n > 25 =>
              /\ (fn_ret[2] - 1) * (fn_ret[2] - 1) < fn_args.n
              /\ fn_args.n <= fn_ret[2] * fn_ret[2]
              /\ (fn_ret[1] - 1) * fn_ret[2] < fn_args.n
        /\ fn_args.n = 30 => fn_ret = <<5, 6>>

\* the grid of 30 images was computed by the fallback
C5_Witness ==
    /\ Returned("calculate_grid_layout")
    /\ fn_args.n = 30
    /\ fn_ret = <<5, 6>>

\* ------------------------------------------------------------------- C6
\* [lo, lo + len] lies in [LO, LO + LEN], exactly
Within(lo, len, LO, LEN) == XLe(LO, lo) /\ XLe(XAdd(lo, len), XAdd(LO, LEN))

\* the rectangle of the placement lies in its cell
ImageInCell(a) ==
    /\ Within(a.x, a.width, a.cell.x, a.cell.w)
    /\ Within(a.y, a.height, a.cell.y, a.cell.h)

CellInArea(c) ==
    /\ Within(c.x, c.w, F0, AvailableWidth)
    /\ Within(c.y, c.h, F0, AvailableHeight)

\* the interiors of two cells are disjoint
CellsApart(c, d) ==
    \/ XLe(XAdd(c.x, c.w), d.x)
    \/ XLe(XAdd(d.x, d.w), c.x)
    \/ XLe(XAdd(c.y, c.h), d.y)
    \/ XLe(XAdd(d.y, d.h), c.y)

\* C6: in the grid and the spiral layout every placed image lies inside the
\* cell of its index, the cells of two different indices have disjoint
\* interiors, and every cell lies inside the available area [0, W] x [0, H]
\* (stated for the cells of the images placed).
C6_CellsPartitionArea ==
    (script \in {"v2", "v3"} /\ pc = "draw") =>
        /\ \A k \in DOMAIN arranged_images :
              /\ ImageInCell(arranged_images[k])
              /\ CellInArea(arranged_images[k].cell)
        /\ \A k, m \in DOMAIN arranged_images :
              k # m => CellsApart(arranged_images[k].cell,
                                  arranged_images[m].cell)

\* ------------------------------------------------------------------- C7
Manhattan(p, q) == Abs(p[1] - q[1]) + Abs(p[2] - q[2])

BoxArea(positions) ==
    (MaxCoord(positions, 1) - MinCoord(positions, 1) + 1)
    * (MaxCoord(positions, 2) - MinCoord(positions, 2) + 1)

\* C7: for N >= 1, generate_spiral_positions(N) returns N coordinates, the
\* first (0,0), pairwise distinct, each at Manhattan distance 1 from the one
\* before it, and their bounding box has area >= N.
C7_SpiralWalk ==
    Returned("generate_spiral_positions") =>
        /\ Len(fn_ret) = fn_args.n
        /\ fn_ret[1] = <<0, 0>>
        /\ \A i, j \in 1..Len(fn_ret) : i # j => fn_ret[i] # fn_ret[j]
        /\ \A i \in 2..Len(fn_ret) : Manhattan(fn_ret[i - 1], fn_ret[i]) = 1
        /\ BoxArea(fn_ret) >= fn_args.n

\* a walk that has gone round the centre: it reached (-1,-1) and went on
C7_Witness ==
    /\ Returned("generate_spiral_positions")
    /\ fn_args.n >= 10
    /\ fn_ret[7] = <<0 - 1, 0 - 1>>

\* ------------------------------------------------------------------- C8
\* the cells used, by index of the file
CellsOf(arranged) == {<<arranged[k].path, arranged[k].cell>> : k \in DOMAIN arranged}

\* C8: in spiral layout, for a file j that fails probing, every other image
\* placed is given the cell (corner, size) it is given when file j is
\* readable: the failure leaves a gap, the rest does not move up.
C8_GapKept ==
    (script = "v3" /\ pc = "draw") =>
        \A j \in DOMAIN image_files :
            ~Probeable(image_files[j]) =>
                \A img \in Kinds :
                    CellsOf(arranged_images) \subseteq
                        CellsOf(arrange_all_images_on_single_page_v3(
                                    [image_files EXCEPT ![j] = img],
                                    AvailableWidth, AvailableHeight))

\* a spiral where a file failed probing and a later one was placed
C8_Witness ==
    /\ script = "v3" /\ pc = "draw"
    /\ \E j \in DOMAIN image_files :
          /\ ~Probeable(image_files[j])
          /\ \E k \in DOMAIN arranged_images : arranged_images[k].path > j - 1

\* ------------------------------------------------------------------- C9
\* C9: in flow layout a row closes only when less than 50pt of its width is
\* left or the images have run out, and a new page is started only when less
\* than 50pt of the height of the page before it is left.
C9_ClosesOnlyWhenFull ==
    script = "v1" =>
        /\ \A k \in DOMAIN page.row_closes :
              \/ FLt(page.row_closes[k].remaining_width, FromInt(MIN_SPACE))
              \/ page.row_closes[k].current_idx >= Len(image_files)
        /\ (pc = "arrange" /\ page_num > 1) =>
              FLt(page.remaining_height, FromInt(MIN_SPACE))

\* ------------------------------------------------------------------ C10
\* the calls op made for file i so far
CallsOf(op, i) == {k \in DOMAIN log : log[k].op = op /\ log[k].i = i}

\* C10: every file is probed exactly once in a run (never twice, and once
\* when the run has ended), and the probe comes before the placement of the
\* file and before any draw call for it.
C10_ProbedOnce ==
    \A i \in 0..(Len(image_files) - 1) :
        /\ Cardinality(CallsOf("probe", i)) <= 1
        /\ pc = "done" => Cardinality(CallsOf("probe", i)) = 1
        /\ \A k \in DOMAIN log :
              (log[k].i = i /\ log[k].op \in {"place", "draw", "drawfail"}) =>
                  \E m \in 1..(k - 1) : log[m].op = "probe" /\ log[m].i = i

\* ------------------------------------------------------------------ C11
\* C11: the flow-layout run terminates.  Every iteration of the page loop of
\* create_pdf_from_images ends with current_idx larger than it began and not
\* past len(image_files); arrange_images_on_page returns an index between its
\* start_idx and len(image_files); and a run that has begun a page reaches the
\* save step, whatever files fail probing and whatever draw calls fail.
C11_FlowTerminates ==
    /\ [][(script = "v1" /\ pc' = "advance") =>
             (current_idx' > current_idx /\ current_idx' <= Len(image_files))]_vars
    /\ [][(script = "v1" /\ pc = "arrange") =>
             (current_idx <= page'.current_idx
              /\ page'.current_idx <= Len(image_files))]_vars
    /\ (script = "v1" /\ pc = "arrange") ~> (pc = "save")

\* a flow run of several pages with an unreadable file has reached the save step
C11_Witness ==
    /\ script = "v1" /\ pc = "save"
    /\ page_num > 1
    /\ \E k \in DOMAIN image_files : ~Probeable(image_files[k])

\* ------------------------------------------------------------------ C12
\* the integer i as an exact number
XInt(i) == <<i, 0>>

\* the exact sum of the widths of the first k images of a row
RECURSIVE XSumWidths(_, _)
XSumWidths(row, k) ==
    IF k = 0 THEN F0 ELSE XAdd(XSumWidths(row, k - 1), row[k].width)

\* the widths of a row and the gaps between neighbours
RowExtent(row) ==
    XAdd(XSumWidths(row, Len(row)), XInt((Len(row) - 1) * FLOW_GAP))

\* the exact sum of the heights of the first k rows of a page
RECURSIVE XSumHeights(_, _)
XSumHeights(rows, k) ==
    IF k = 0 THEN F0
    ELSE XAdd(XSumHeights(rows, k - 1), MaxHeight(rows[k], Len(rows[k])))

\* the heights of the rows of a page and the gaps between them
PageExtent(rows) ==
    XAdd(XSumHeights(rows, Len(rows)), XInt((Len(rows) - 1) * FLOW_GAP))

\* the draw calls that returned, by their place in the log
Drawn == {k \in DOMAIN log : log[k].op = "draw"}

\* two calls of the log are made on the same page
SamePage(k, m) == \A j \in k..m : log[j].op # "showPage"

\* the rectangle of a draw call as a cell
Rect(c) == [x |-> c.x, y |-> c.y, w |-> c.w, h |-> c.h]

\* the rounding allowed to n additions on lengths up to len: (2n + 4) * u * len,
\* u = 2^(-MantBits) the unit roundoff
Slack(n, len) == <<len[1] * (2 * n + 4), len[2] - MantBits>>

\* [lo, lo + len] lies in [LO - slack, LO + LEN + slack]
WithinSlack(lo, len, LO, LEN, slack) ==
    /\ XLe(XSub(LO, slack), lo)
    /\ XLe(XAdd(lo, len), XAdd(XAdd(LO, LEN), slack))

\* C12 as stated: on every page of the flow layout the widths of each row
\* plus 10pt between neighbours are <= W and the heights of the rows plus
\* 10pt between rows are <= H; every rectangle drawn lies inside the area
\* within the margins and no two rectangles of a page overlap.
C12_RowsFitExactly ==
    script = "v1" =>
        /\ \A p \in DOMAIN pages :
              /\ \A r \in DOMAIN pages[p] :
                    XLe(RowExtent(pages[p][r]), AvailableWidth)
              /\ XLe(PageExtent(pages[p]), AvailableHeight)
        /\ \A k \in Drawn :
              /\ Within(log[k].x, log[k].w, XInt(MARGIN), AvailableWidth)
              /\ Within(log[k].y, log[k].h, XInt(MARGIN), AvailableHeight)
        /\ \A k, m \in Drawn :
              (k < m /\ SamePage(k, m)) => CellsApart(Rect(log[k]), Rect(log[m]))

\* C12 amended: the same up to the rounding of the float additions.  A row of
\* n images exceeds W by at most (2n + 4) * u * A4_WIDTH, a page of n rows
\* exceeds H by at most (2n + 4) * u * A4_HEIGHT, a rectangle drawn leaves the
\* area within the margins by no more than that with n the number of files,
\* and no two rectangles of a page overlap.
C12_RowsFit ==
    script = "v1" =>
        /\ \A p \in DOMAIN pages :
              /\ \A r \in DOMAIN pages[p] :
                    XLe(RowExtent(pages[p][r]),
                        XAdd(AvailableWidth, Slack(Len(pages[p][r]), A4_WIDTH)))
              /\ XLe(PageExtent(pages[p]),
                     XAdd(AvailableHeight, Slack(Len(pages[p]), A4_HEIGHT)))
        /\ \A k \in Drawn :
              /\ WithinSlack(log[k].x, log[k].w, XInt(MARGIN), AvailableWidth,
                             Slack(Len(image_files), A4_WIDTH))
              /\ WithinSlack(log[k].y, log[k].h, XInt(MARGIN), AvailableHeight,
                             Slack(Len(image_files), A4_HEIGHT))
        /\ \A k, m \in Drawn :
              (k < m /\ SamePage(k, m)) => CellsApart(Rect(log[k]), Rect(log[m]))

\* a page of several rows, one of them of several images, has been drawn
C12_Witness ==
    /\ script = "v1" /\ pc = "advance"
    /\ \E p \in DOMAIN pages :
          /\ Len(pages[p]) > 1
          /\ \E r \in DOMAIN pages[p] : Len(pages[p][r]) > 1
    /\ Cardinality(Drawn) > 2

\* ------------------------------------------------------------------ C13
\* the draw calls of the page last arranged when no draw call fails
DrawsWithoutFailure ==
    DrawRows(page.page_images, 1, FSub(A4_HEIGHT, FromInt(MARGIN)), {}, <<>>)

\* the draw call for file i raised
DrawFailed(i) == \E k \in DOMAIN log : log[k].op = "drawfail" /\ log[k].i = i

\* C13: in flow layout, when a draw call fails only that image is skipped:
\* every other image of the page is drawn, and at the position and size
\* (x, y, width, height) at which it is drawn when no draw call fails.
C13_OthersUnmoved ==
    (script = "v1" /\ pc = "advance") =>
        \A n \in DOMAIN DrawsWithoutFailure :
            \/ DrawFailed(DrawsWithoutFailure[n].i)
            \/ \E k \in DOMAIN log : log[k] = DrawsWithoutFailure[n]

\* ------------------------------------------------------------------ C14
\* the probes and placements arrange_images_on_page last made
Probed(k) == page.events[k][1] = "probe"

PlacedAt(k) == page.events[k][1] = "place"

\* the test `width <= remaining_width` passed for the image probed at k: its
\* placement follows
WidthTestPassed(k) ==
    k < Len(page.events) /\ page.events[k + 1] = Ev("place", page.events[k][2])

\* C14: arrange_images_on_page, called on a fresh page, returns an empty page
\* only when every file from start_idx on fails probing; for a probed image
\* the tests `width <= remaining_width` and `row_height <= remaining_height`
\* always pass (the image is placed, and its row is kept); so the fallback is
\* entered only for an unprobe-able file and never draws.
C14_FallbackOnlyUnprobeable ==
    script = "v1" =>
        /\ pc = "single" =>
              \A k \in (current_idx + 1)..Len(image_files) :
                  ~Probeable(image_files[k])
        /\ \A k \in DOMAIN page.events :
              (Probed(k) /\ Probeable(image_files[page.events[k][2] + 1])) =>
                  WidthTestPassed(k)
        /\ \A k \in DOMAIN page.events :
              PlacedAt(k) => page.events[k][2] \in Paths(page.page_images)
        /\ \A k \in DOMAIN log :
              log[k].op \in {"draw", "drawfail"} =>
                  \E m \in 1..(k - 1) : log[m] = Call0("place", log[k].i)

====
